---- MODULE Spec2Model ----
(***************************************************************************)
(* A model of two pieces of quickwit:                                      *)
(*   quickwit-aws/src/retry.rs            the retry loop with exponential  *)
(*                                        backoff and full jitter          *)
(*   quickwit-ingest/src/ingest_v2/shard_table.rs                          *)
(*                                        the shard table and its          *)
(*                                        round-robin entries              *)
(* SpecRetry runs one call of retry_with_mockable_time (SpecRetryFair: one *)
(* whose steps are always taken in the end); SpecTable runs a ShardTable   *)
(* through insert_shards, find_entry, contains_entry and                   *)
(* next_shard_round_robin; SpecNew applies ShardTableEntry::new to a shard *)
(* list; SpecEntry, SpecWrap and SpecSustained run threads that call       *)
(* next_shard_round_robin on one entry.                                    *)
(***************************************************************************)
EXTENDS Integers, Sequences, FiniteSets, TLC

(***************************************************************************)
(* Bounds of the model.                                                    *)
(***************************************************************************)
\* largest max_attempts tried; above U64Bits so that 2u64.pow overflows
MaxAttempts == 66
\* largest base_delay / max_delay tried, in whole milliseconds
MaxDelayMs == 2
\* longest shard list handed to ShardTable::insert_shards
MaxShards == 2
\* longest shard list handed to ShardTableEntry::new on its own
MaxNewShards == 4
\* most next_shard_round_robin calls followed on one entry
MaxCalls == 3
\* threads calling next_shard_round_robin on one entry at the same time
NumThreads == 2

(***************************************************************************)
(* retry.rs: data                                                          *)
(***************************************************************************)
\* width of the u64 the backoff ceiling is computed in
U64Bits == 64

\* a Duration is modelled by its length in microseconds
MicrosPerMilli == 1000

\* Duration::from_millis
from_millis(ms) == ms * MicrosPerMilli

\* Duration::as_millis: whole milliseconds, the rest is dropped
as_millis(d) == d \div MicrosPerMilli

\* the durations tried: zero, half a millisecond, whole milliseconds
Durations == {0, 500} \cup {from_millis(ms) : ms \in 1..MaxDelayMs}

\* RetryParams { base_delay, max_delay, max_attempts }
RetryParams ==
  [base_delay : Durations, max_delay : Durations, max_attempts : 0..MaxAttempts]

\* Result<U, Retry<E>> as produced by the i-th invocation of f: the payload
\* `inner` names the invocation that produced it (the tests script
\* Transient(retry_id) the same way)
Ok(i) == [variant |-> "Ok", retry |-> "None", inner |-> i]
Transient(i) == [variant |-> "Err", retry |-> "Transient", inner |-> i]
Permanent(i) == [variant |-> "Err", retry |-> "Permanent", inner |-> i]

\* what f() can answer at its i-th invocation
Responses(i) == {Ok(i), Transient(i), Permanent(i)}

\* no response / no result yet
None == [variant |-> "None", retry |-> "None", inner |-> 0]

\* the Ok(response) arm of the match
IsOk_Never(response) == FALSE
IsOk(response) == response.variant = "Ok"

\* Retry<E>::is_retryable
is_retryable_Always(error) == TRUE
is_retryable(error) == error.retry = "Transient"

\* attempt_count >= retry_params.max_attempts
AttemptsExhausted_GT(count, max) == count > max
AttemptsExhausted_Early(count, max) == count + 1 >= max
AttemptsExhausted(count, max) == count >= max

(***************************************************************************)
(* retry.rs: the backoff ceiling, in u64 arithmetic                        *)
(***************************************************************************)
RECURSIVE Pow2(_)
Pow2(n) == IF n = 0 THEN 1 ELSE 2 * Pow2(n - 1)

\* number of significant bits of x
RECURSIVE BitLen(_)
BitLen(x) == IF x = 0 THEN 0 ELSE 1 + BitLen(x \div 2)

\* min(x * 2^n, cap), computed without ever exceeding 2 * cap
RECURSIVE ShlMin(_, _, _)
ShlMin(x, n, cap) ==
  IF x >= cap THEN cap
  ELSE IF n = 0 THEN x
  ELSE ShlMin(2 * x, n - 1, cap)

\* base_ms * 2u64.pow(k) does not fit 64 bits: 2u64.pow(k) itself overflows
\* from k = 64 on, the product overflows when base_ms * 2^k >= 2^64
Overflows(base_ms, k) ==
  \/ k >= U64Bits
  \/ base_ms > 0 /\ BitLen(base_ms) + k > U64Bits

\* (base_ms * 2u64.pow(k)).min(max_ms) with wrapping arithmetic (a build
\* without overflow checks): the product keeps the low 64 - k bits of base_ms,
\* shifted left by k; from k = 64 on 2u64.pow(k) wraps to 0.  The delays tried
\* are below 2^30 ms, so base_ms is kept whole while 64 - k > 30.  k is
\* attempt_count as u32, which is attempt_count for the counts reached here.
WrappingCeilingMs(base_ms, max_ms, k) ==
  IF k >= U64Bits THEN 0
  ELSE LET kept == IF U64Bits - k > 30 THEN base_ms
                   ELSE base_ms % Pow2(U64Bits - k)
       IN  IF kept = 0 THEN 0 ELSE ShlMin(kept, k, max_ms)

(***************************************************************************)
(* shard_table.rs: data                                                    *)
(***************************************************************************)
\* ShardState, as the table reads it through Shard::is_open
ShardStates == {"Open", "Closed"}

\* the shard ids tried, those of test_shard_table
ShardIds == {0, 1, 2}

\* the fields of Shard the table reads: shard_id and shard_state
Shards == [shard_id : ShardIds, shard_state : ShardStates]

\* the value of find_entry / next_shard_round_robin when there is nothing
NoShard == [shard_id |-> -1, shard_state |-> "None"]

RECURSIVE SeqsUpTo(_, _)
SeqsUpTo(S, n) ==
  IF n = 0 THEN {<<>>}
  ELSE LET shorter == SeqsUpTo(S, n - 1)
       IN  shorter \cup {Append(q, x) : q \in {r \in shorter : Len(r) = n - 1}, x \in S}

\* (IndexId, SourceId)
IndexIds == {"index-a", "index-b"}
SourceIds == {"source-a"}
Keys == IndexIds \X SourceIds

\* AtomicUsize on a 64-bit target: a 64-bit counter, held as sixteen 4-bit
\* limbs, lowest first.  The operators below take the counter's width from its
\* number of limbs.
UsizeBits == 64
LimbBits == 4
NumLimbs == UsizeBits \div LimbBits
LimbMax == Pow2(LimbBits) - 1

\* AtomicUsize::default()
Zero == [i \in 1..NumLimbs |-> 0]

\* the value fetch_add(1, _) stores: c + 1, wrapping around to 0 past the
\* largest value of the counter (2^64 - 1 for sixteen limbs)
WrappingInc_Stuck(c) == c
WrappingInc_Reset(c) == [i \in 1..Len(c) |-> 0]
WrappingInc(c) ==
  IF \A i \in 1..Len(c) : c[i] = LimbMax THEN [i \in 1..Len(c) |-> 0]
  ELSE LET j == CHOOSE j \in 1..Len(c) :
                  c[j] < LimbMax /\ \A i \in 1..(j - 1) : c[i] = LimbMax
       IN  [i \in 1..Len(c) |->
              IF i < j THEN 0 ELSE IF i = j THEN c[i] + 1 ELSE c[i]]

\* the value fetch_add(1, _) answers: the counter as it was before the add
Fetched_New(c) == WrappingInc(c)
Fetched(c) == c

\* b^e % m
RECURSIVE PowMod(_, _, _)
PowMod(b, e, m) == IF e = 0 THEN 1 % m ELSE (b * PowMod(b, e - 1, m)) % m

\* c % m for a counter c
RECURSIVE LimbsMod(_, _, _)
LimbsMod(c, i, m) ==
  IF i > Len(c) THEN 0
  ELSE (c[i] * PowMod(Pow2(LimbBits) % m, i - 1, m) + LimbsMod(c, i + 1, m)) % m

UsizeMod(c, m) == LimbsMod(c, 1, m)

\* Shard::is_open (quickwit-proto): the shard's state is Open
IsOpen(shard) == shard.shard_state = "Open"

\* shards.retain(|shard| shard.is_open())
Retain_All(shards) == shards
Retain(shards) == SelectSeq(shards, IsOpen)

\* shards.sort_unstable_by_key(|shard| shard.shard_id): the order of shards
\* with one shard_id is left open by an unstable sort; after retain they are
\* all Open, so in the fields kept here they are equal and the order is one
RECURSIVE InsertByKey(_, _)
InsertByKey(sorted, shard) ==
  IF sorted = <<>> THEN <<shard>>
  ELSE IF shard.shard_id < Head(sorted).shard_id THEN <<shard>> \o sorted
  ELSE <<Head(sorted)>> \o InsertByKey(Tail(sorted), shard)

RECURSIVE SortFrom(_, _)
SortFrom(sorted, rest) ==
  IF rest = <<>> THEN sorted
  ELSE SortFrom(InsertByKey(sorted, Head(rest)), Tail(rest))

SortByKey(shards) == SortFrom(<<>>, shards)

\* shards.dedup_by_key(|shard| shard.shard_id): of each run of consecutive
\* shards with one shard_id, the first is kept
RECURSIVE DedupFrom(_, _)
DedupFrom(kept, rest) ==
  IF rest = <<>> THEN kept
  ELSE IF kept # <<>> /\ kept[Len(kept)].shard_id = Head(rest).shard_id
       THEN DedupFrom(kept, Tail(rest))
       ELSE DedupFrom(Append(kept, Head(rest)), Tail(rest))

DedupByKey_None(shards) == shards
DedupByKey(shards) == DedupFrom(<<>>, shards)

\* what ShardTableEntry::new answers when its assert! fails
Panicked == [shards |-> <<>>, round_robin_idx |-> Zero, panicked |-> TRUE]

\* no entry (a key absent from the table, an entry not yet constructed)
NoEntry == [shards |-> <<>>, round_robin_idx |-> Zero, panicked |-> FALSE]

\* ShardTableEntry::new
New_NoAssert(shards) ==
  [shards |-> DedupByKey(SortByKey(Retain(shards))), round_robin_idx |-> Zero,
   panicked |-> FALSE]
New(shards) ==
  LET open == DedupByKey(SortByKey(Retain(shards)))
  IN  IF open = <<>> THEN Panicked
      ELSE [shards |-> open, round_robin_idx |-> Zero, panicked |-> FALSE]

\* the index next_shard_round_robin reads: shard_idx % self.shards.len()
\* (sequences here start at 1)
ShardIdx_PostIncrement(shard_idx, len) == UsizeMod(WrappingInc(shard_idx), len) + 1
ShardIdx(shard_idx, len) == UsizeMod(shard_idx, len) + 1

\* the latest operation on the table: `found` is the answer of contains_entry
\* and find_entry, `shard` the answer of next_shard_round_robin; of an
\* insert_shards, `open_ids` are the ids of the Open shards it was given and
\* `prior_calls` the next_shard_round_robin calls the entry it found had served
NoOp == [op |-> "none", key |-> <<"", "">>, found |-> FALSE, shard |-> NoShard,
         open_ids |-> {}, prior_calls |-> 0]

\* the ids of the Open shards of a list
OpenIds(shards) ==
  {shards[i].shard_id : i \in {j \in 1..Len(shards) : shards[j].shard_state = "Open"}}

\* HashMap::insert: the value stored for the key is the new one
HashMapInsert_KeepIdx(old, entry) ==
  IF old = NoEntry THEN entry
  ELSE [entry EXCEPT !.round_robin_idx = old.round_robin_idx]
HashMapInsert(old, entry) == entry

\* `self.table.insert(key, entry)`: the map afterwards; only the key's slot is
\* written
TableInsert_Fresh(map, key, entry) ==
  [k \in Keys |-> IF k = key THEN entry ELSE NoEntry]
TableInsert(map, key, entry) == [map EXCEPT ![key] = HashMapInsert(@, entry)]

\* `self.table.contains_key(&key)`
ContainsKey_NonEmpty(map, key) == \E k \in Keys : map[k] # NoEntry
ContainsKey(map, key) == map[key] # NoEntry

\* `self.table.get(&key)`: the entry stored for the key, NoEntry for None
Get(map, key) == map[key]

\* ShardTableEntry::default(), which `#[derive(Default)]` provides: an empty
\* Vec and a counter at 0
DefaultEntry == [shards |-> <<>>, round_robin_idx |-> Zero, panicked |-> FALSE]

\* the threads that call next_shard_round_robin on one entry
Threads == 1..NumThreads

\* the counter of the specification of sustained load at 0: a single limb, so
\* that a behaviour passes the counter's wrap-around again and again
SmallZero == <<0>>

\* the largest value of the counter, 2^64 - 1
UsizeMax == [i \in 1..NumLimbs |-> LimbMax]

\* counter values an entry can have reached when a run of calls begins: up to
\* MaxCalls calls after construction, or up to MaxCalls calls before the
\* counter's wrap-around
CursorValues ==
  {[Zero EXCEPT ![1] = d] : d \in 0..MaxCalls}
    \cup {[UsizeMax EXCEPT ![1] = LimbMax - d] : d \in 0..MaxCalls}

(***************************************************************************)
(* State                                                                   *)
(***************************************************************************)
VARIABLES
  \* ---- a ShardTable ----
  table,            \* ShardTable.table: key -> entry, NoEntry where absent
  table_pc,         \* "ready", or "panicked" once an operation panicked
  served,           \* key -> the shards its current entry's
                    \* next_shard_round_robin calls answered, in order
  last_op,          \* the latest table operation: its name, key and answer
  inserted,         \* the keys insert_shards has stored an entry for
  \* ---- a ShardTableEntry constructed on its own ----
  new_input,        \* the shard list handed to ShardTableEntry::new
  new_entry,        \* what it answered, NoEntry before the call
  new_by,           \* the constructor that made new_entry: "new", "default",
                    \* "" before any
  \* ---- threads calling next_shard_round_robin on new_entry ----
  thr_pc,           \* thread -> "idle"; "fetched": between the fetch_add and
                    \* the indexing; "panicked"
  thr_idx,          \* thread -> its local shard_idx
  sustained,        \* TRUE: calls keep coming for ever; FALSE: at most
                    \* MaxCalls calls are made, and they are logged
  fetch_log,        \* the values the fetch_adds answered, in order
  ret_count,        \* shard id -> how many calls returned that shard
  last_ret,         \* the shard the latest completed call returned
  \* ---- one call of retry_with_mockable_time ----
  retry_params,     \* the RetryParams the call was given
  overflow_checks,  \* the build: TRUE panics on integer overflow, FALSE wraps
  pc,               \* "invoke": about to call f; "sleep": in mockable_time.sleep;
                    \* "returned"; "panicked"
  attempt_count,    \* the local attempt_count
  responses,        \* what each f().await produced, in order of invocation
  result,           \* the Result the call returned, None before
  ceiling_ms,       \* the local ceiling_ms of the latest backoff
  delay,            \* the Duration handed to the latest sleep
  panic,            \* why the call panicked, "" if it did not
  sleeps            \* how many times mockable_time.sleep was called

retry_vars ==
  <<retry_params, overflow_checks, pc, attempt_count, responses, result,
    ceiling_ms, delay, panic, sleeps>>

table_vars == <<table, table_pc, served, last_op, inserted>>

new_vars == <<new_input, new_entry, new_by>>

caller_vars == <<thr_pc, thr_idx, sustained, fetch_log, ret_count, last_ret>>

vars == <<retry_vars, table_vars, new_vars, caller_vars>>

(***************************************************************************)
(* retry.rs: retry_with_mockable_time                                      *)
(***************************************************************************)
\* how many times f was invoked
calls == Len(responses)

\* `let mut attempt_count = 0;` for any RetryParams, in either build; the
\* shard table is empty and stays untouched
RetryInit ==
  /\ retry_params \in RetryParams
  /\ overflow_checks \in BOOLEAN
  /\ pc = "invoke"
  /\ attempt_count = 0
  /\ responses = <<>>
  /\ result = None
  /\ ceiling_ms = 0
  /\ delay = 0
  /\ panic = ""
  /\ sleeps = 0
  /\ table = [key \in Keys |-> NoEntry]
  /\ table_pc = "ready"
  /\ served = [key \in Keys |-> <<>>]
  /\ last_op = NoOp
  /\ inserted = {}
  /\ new_input = <<>>
  /\ new_entry = NoEntry
  /\ new_by = ""
  /\ thr_pc = [t \in Threads |-> "idle"]
  /\ thr_idx = [t \in Threads |-> Zero]
  /\ sustained = FALSE
  /\ fetch_log = <<>>
  /\ ret_count = [id \in ShardIds |-> 0]
  /\ last_ret = NoShard

\* the arm of `match response` taken once attempt_count has been incremented
Arm(response, count) ==
  IF IsOk(response) THEN "ok"
  ELSE IF ~is_retryable(response) THEN "permanent"
  ELSE IF AttemptsExhausted(count, retry_params.max_attempts) THEN "exhausted"
  ELSE "backoff"

\* `let response = f().await; attempt_count += 1;`
Invoked(response) ==
  /\ pc = "invoke"
  /\ response \in Responses(calls + 1)
  /\ responses' = Append(responses, response)
  /\ attempt_count' = attempt_count + 1
  /\ UNCHANGED <<retry_params, overflow_checks, table_vars, new_vars, caller_vars>>

\* `return Ok(response);`
ReturnOk ==
  \E response \in Responses(calls + 1) :
    /\ Invoked(response)
    /\ Arm(response, attempt_count + 1) = "ok"
    /\ result' = [variant |-> "Ok", retry |-> "None", inner |-> response.inner]
    /\ pc' = "returned"
    /\ UNCHANGED <<ceiling_ms, delay, panic, sleeps>>

\* `if !error.is_retryable() { return Err(error); }`
ReturnPermanent ==
  \E response \in Responses(calls + 1) :
    /\ Invoked(response)
    /\ Arm(response, attempt_count + 1) = "permanent"
    /\ result' = [variant |-> "Err", retry |-> response.retry, inner |-> response.inner]
    /\ pc' = "returned"
    /\ UNCHANGED <<ceiling_ms, delay, panic, sleeps>>

\* `if attempt_count >= retry_params.max_attempts { ... return Err(error); }`
ReturnExhausted ==
  \E response \in Responses(calls + 1) :
    /\ Invoked(response)
    /\ Arm(response, attempt_count + 1) = "exhausted"
    /\ result' = [variant |-> "Err", retry |-> response.retry, inner |-> response.inner]
    /\ pc' = "returned"
    /\ UNCHANGED <<ceiling_ms, delay, panic, sleeps>>

\* the backoff: ceiling_ms, then delay_ms = gen_range(0..ceiling_ms), then the
\* sleep begins.  With overflow checks an overflowing product panics; gen_range
\* panics on the empty range 0..0.
Backoff ==
  \E response \in Responses(calls + 1) :
    /\ Invoked(response)
    /\ Arm(response, attempt_count + 1) = "backoff"
    /\ LET base_ms == as_millis(retry_params.base_delay)
           max_ms == as_millis(retry_params.max_delay)
           k == attempt_count + 1
           ceiling == WrappingCeilingMs(base_ms, max_ms, k)
       IN  IF overflow_checks /\ Overflows(base_ms, k)
           THEN /\ pc' = "panicked"
                /\ panic' = "attempt to multiply with overflow"
                /\ UNCHANGED <<ceiling_ms, delay, sleeps>>
           ELSE /\ ceiling_ms' = ceiling
                /\ IF ceiling = 0
                   THEN /\ pc' = "panicked"
                        /\ panic' = "cannot sample empty range"
                        /\ UNCHANGED <<delay, sleeps>>
                   ELSE /\ \E delay_ms \in 0..(ceiling - 1) :
                             delay' = from_millis(delay_ms)
                        /\ sleeps' = sleeps + 1
                        /\ pc' = "sleep"
                        /\ UNCHANGED panic
    /\ UNCHANGED result

\* `mockable_time.sleep(...).await` completes; the loop goes round
SleepDone ==
  /\ pc = "sleep"
  /\ pc' = "invoke"
  /\ UNCHANGED <<retry_params, overflow_checks, attempt_count, responses,
                 result, ceiling_ms, delay, panic, sleeps, table_vars, new_vars, caller_vars>>

RetryNext ==
  \/ ReturnOk
  \/ ReturnPermanent
  \/ ReturnExhausted
  \/ Backoff
  \/ SleepDone

(***************************************************************************)
(* shard_table.rs: ShardTableEntry::new on its own                         *)
(***************************************************************************)
\* any shard list, about to be handed to ShardTableEntry::new; no retry call
\* is in progress and the shard table is empty
NewInit ==
  /\ new_input \in SeqsUpTo(Shards, MaxNewShards)
  /\ new_entry = NoEntry
  /\ new_by = ""
  /\ thr_pc = [t \in Threads |-> "idle"]
  /\ thr_idx = [t \in Threads |-> Zero]
  /\ sustained = FALSE
  /\ fetch_log = <<>>
  /\ ret_count = [id \in ShardIds |-> 0]
  /\ last_ret = NoShard
  /\ retry_params = [base_delay |-> 0, max_delay |-> 0, max_attempts |-> 0]
  /\ overflow_checks = TRUE
  /\ pc = "returned"
  /\ attempt_count = 0
  /\ responses = <<>>
  /\ result = None
  /\ ceiling_ms = 0
  /\ delay = 0
  /\ panic = ""
  /\ sleeps = 0
  /\ table = [key \in Keys |-> NoEntry]
  /\ table_pc = "ready"
  /\ served = [key \in Keys |-> <<>>]
  /\ last_op = NoOp
  /\ inserted = {}

\* `ShardTableEntry::new(shards)`
Construct ==
  /\ new_by = ""
  /\ new_entry' = New(new_input)
  /\ new_by' = "new"
  /\ UNCHANGED <<new_input, retry_vars, table_vars, caller_vars>>

NewNext == Construct

(***************************************************************************)
(* shard_table.rs: ShardTable                                              *)
(***************************************************************************)
\* ShardTable::default(); no retry call is in progress and no entry is being
\* constructed on its own
TableInit ==
  /\ table = [key \in Keys |-> NoEntry]
  /\ table_pc = "ready"
  /\ served = [key \in Keys |-> <<>>]
  /\ last_op = NoOp
  /\ inserted = {}
  /\ retry_params = [base_delay |-> 0, max_delay |-> 0, max_attempts |-> 0]
  /\ overflow_checks = TRUE
  /\ pc = "returned"
  /\ attempt_count = 0
  /\ responses = <<>>
  /\ result = None
  /\ ceiling_ms = 0
  /\ delay = 0
  /\ panic = ""
  /\ sleeps = 0
  /\ new_input = <<>>
  /\ new_entry = NoEntry
  /\ new_by = ""
  /\ thr_pc = [t \in Threads |-> "idle"]
  /\ thr_idx = [t \in Threads |-> Zero]
  /\ sustained = FALSE
  /\ fetch_log = <<>>
  /\ ret_count = [id \in ShardIds |-> 0]
  /\ last_ret = NoShard

\* ShardTable::contains_entry
ContainsEntry(key) ==
  /\ table_pc = "ready"
  /\ last_op' = [op |-> "contains_entry", key |-> key,
                 found |-> ContainsKey(table, key), shard |-> NoShard,
                 open_ids |-> {}, prior_calls |-> 0]
  /\ UNCHANGED <<table, table_pc, served, inserted, retry_vars, new_vars, caller_vars>>

\* ShardTable::find_entry
FindEntry(key) ==
  /\ table_pc = "ready"
  /\ last_op' = [op |-> "find_entry", key |-> key,
                 found |-> Get(table, key) # NoEntry, shard |-> NoShard,
                 open_ids |-> {}, prior_calls |-> 0]
  /\ UNCHANGED <<table, table_pc, served, inserted, retry_vars, new_vars, caller_vars>>

\* ShardTable::insert_shards: the entry is constructed first, so a panic of
\* ShardTableEntry::new leaves the map as it was
InsertShards(key, shards) ==
  /\ table_pc = "ready"
  /\ LET entry == New(shards)
     IN  IF entry.panicked
         THEN /\ table_pc' = "panicked"
              /\ UNCHANGED <<table, served, inserted>>
         ELSE /\ table' = TableInsert(table, key, entry)
              /\ served' = [served EXCEPT ![key] = <<>>]
              /\ inserted' = inserted \cup {key}
              /\ UNCHANGED table_pc
  /\ last_op' = [op |-> "insert_shards", key |-> key, found |-> FALSE,
                 shard |-> NoShard, open_ids |-> OpenIds(shards),
                 prior_calls |-> Len(served[key])]
  /\ UNCHANGED <<retry_vars, new_vars, caller_vars>>

\* ShardTableEntry::next_shard_round_robin on the entry find_entry gave
NextShardRoundRobin(key) ==
  /\ table_pc = "ready"
  /\ table[key] # NoEntry
  /\ Len(served[key]) < MaxCalls
  /\ LET entry == table[key]
         shard_idx == entry.round_robin_idx
         shard == entry.shards[ShardIdx(shard_idx, Len(entry.shards))]
     IN  /\ table' = [table EXCEPT ![key].round_robin_idx = WrappingInc(shard_idx)]
         /\ last_op' = [op |-> "next_shard_round_robin", key |-> key, found |-> TRUE,
                        shard |-> shard, open_ids |-> {}, prior_calls |-> 0]
         /\ served' = [served EXCEPT ![key] = Append(@, shard)]
  /\ UNCHANGED <<table_pc, inserted, retry_vars, new_vars, caller_vars>>

TableNext ==
  \/ \E key \in Keys : ContainsEntry(key)
  \/ \E key \in Keys : FindEntry(key)
  \/ \E key \in Keys, shards \in SeqsUpTo(Shards, MaxShards) : InsertShards(key, shards)
  \/ \E key \in Keys : NextShardRoundRobin(key)

(***************************************************************************)
(* shard_table.rs: one ShardTableEntry and the threads that call           *)
(* next_shard_round_robin on it                                            *)
(***************************************************************************)
\* an entry has been made and is there to be called
EntryExists == new_by # "" /\ ~new_entry.panicked

\* ShardTableEntry::default()
ConstructDefault ==
  /\ new_by = ""
  /\ new_entry' = DefaultEntry
  /\ new_by' = "default"
  /\ UNCHANGED <<new_input, retry_vars, table_vars, caller_vars>>

\* `let shard_idx = self.round_robin_idx.fetch_add(1, Ordering::Relaxed);`:
\* one atomic read-modify-write of the counter
FetchAdd(t) ==
  /\ EntryExists
  /\ thr_pc[t] = "idle"
  /\ sustained \/ Len(fetch_log) < MaxCalls
  /\ thr_idx' = [thr_idx EXCEPT ![t] = Fetched(new_entry.round_robin_idx)]
  /\ new_entry' = [new_entry EXCEPT !.round_robin_idx = WrappingInc(@)]
  /\ thr_pc' = [thr_pc EXCEPT ![t] = "fetched"]
  /\ fetch_log' = IF sustained THEN fetch_log ELSE Append(fetch_log, thr_idx'[t])
  /\ UNCHANGED <<new_input, new_by, sustained, ret_count, last_ret,
                 retry_vars, table_vars>>

\* `&self.shards[shard_idx % self.shards.len()]`: the remainder by a length
\* of 0 panics; the call is over and its local shard_idx is gone
IndexShard(t) ==
  /\ thr_pc[t] = "fetched"
  /\ IF Len(new_entry.shards) = 0
     THEN /\ thr_pc' = [thr_pc EXCEPT ![t] = "panicked"]
          /\ UNCHANGED <<thr_idx, ret_count, last_ret>>
     ELSE LET shard == new_entry.shards[ShardIdx(thr_idx[t], Len(new_entry.shards))]
          IN  /\ thr_pc' = [thr_pc EXCEPT ![t] = "idle"]
              /\ thr_idx' = [thr_idx EXCEPT ![t] = [i \in 1..Len(@) |-> 0]]
              /\ last_ret' = shard
              /\ ret_count' = IF sustained THEN ret_count
                              ELSE [ret_count EXCEPT ![shard.shard_id] = @ + 1]
  /\ UNCHANGED <<new_vars, sustained, fetch_log, retry_vars, table_vars>>

\* nothing constructed yet; the shard list is any list of up to MaxShards
\* shards; every thread is idle
EntryInit ==
  /\ new_input \in SeqsUpTo(Shards, MaxShards)
  /\ new_entry = NoEntry
  /\ new_by = ""
  /\ thr_pc = [t \in Threads |-> "idle"]
  /\ thr_idx = [t \in Threads |-> Zero]
  /\ sustained = FALSE
  /\ fetch_log = <<>>
  /\ ret_count = [id \in ShardIds |-> 0]
  /\ last_ret = NoShard
  /\ retry_params = [base_delay |-> 0, max_delay |-> 0, max_attempts |-> 0]
  /\ overflow_checks = TRUE
  /\ pc = "returned"
  /\ attempt_count = 0
  /\ responses = <<>>
  /\ result = None
  /\ ceiling_ms = 0
  /\ delay = 0
  /\ panic = ""
  /\ sleeps = 0
  /\ table = [key \in Keys |-> NoEntry]
  /\ table_pc = "ready"
  /\ served = [key \in Keys |-> <<>>]
  /\ last_op = NoOp
  /\ inserted = {}

EntryNext ==
  \/ Construct
  \/ ConstructDefault
  \/ \E t \in Threads : FetchAdd(t)
  \/ \E t \in Threads : IndexShard(t)

\* an entry made by ShardTableEntry::new from a list with an Open shard (the
\* lists are taken in the form new leaves them in), its counter at any of
\* CursorValues, about to serve one caller's calls one after the other
WrapInit ==
  /\ new_input \in {New(shards).shards : shards \in SeqsUpTo(Shards, MaxNewShards)}
                   \ {<<>>}
  /\ new_entry \in {[New(new_input) EXCEPT !.round_robin_idx = c] : c \in CursorValues}
  /\ new_by = "new"
  /\ thr_pc = [t \in Threads |-> "idle"]
  /\ thr_idx = [t \in Threads |-> Zero]
  /\ sustained = FALSE
  /\ fetch_log = <<>>
  /\ ret_count = [id \in ShardIds |-> 0]
  /\ last_ret = NoShard
  /\ retry_params = [base_delay |-> 0, max_delay |-> 0, max_attempts |-> 0]
  /\ overflow_checks = TRUE
  /\ pc = "returned"
  /\ attempt_count = 0
  /\ responses = <<>>
  /\ result = None
  /\ ceiling_ms = 0
  /\ delay = 0
  /\ panic = ""
  /\ sleeps = 0
  /\ table = [key \in Keys |-> NoEntry]
  /\ table_pc = "ready"
  /\ served = [key \in Keys |-> <<>>]
  /\ last_op = NoOp
  /\ inserted = {}

WrapNext ==
  \/ FetchAdd(1)
  \/ IndexShard(1)

\* an entry made by ShardTableEntry::new from a list with an Open shard (the
\* lists are taken in the form new leaves them in), under calls that never
\* stop; its counter is one limb wide and at 0
SustainedInit ==
  /\ new_input \in {New(shards).shards : shards \in SeqsUpTo(Shards, MaxNewShards)}
                   \ {<<>>}
  /\ new_entry = [New(new_input) EXCEPT !.round_robin_idx = SmallZero]
  /\ new_by = "new"
  /\ thr_pc = [t \in Threads |-> "idle"]
  /\ thr_idx = [t \in Threads |-> SmallZero]
  /\ sustained = TRUE
  /\ fetch_log = <<>>
  /\ ret_count = [id \in ShardIds |-> 0]
  /\ last_ret = NoShard
  /\ retry_params = [base_delay |-> 0, max_delay |-> 0, max_attempts |-> 0]
  /\ overflow_checks = TRUE
  /\ pc = "returned"
  /\ attempt_count = 0
  /\ responses = <<>>
  /\ result = None
  /\ ceiling_ms = 0
  /\ delay = 0
  /\ panic = ""
  /\ sleeps = 0
  /\ table = [key \in Keys |-> NoEntry]
  /\ table_pc = "ready"
  /\ served = [key \in Keys |-> <<>>]
  /\ last_op = NoOp
  /\ inserted = {}

SustainedNext ==
  \/ \E t \in Threads : FetchAdd(t)
  \/ \E t \in Threads : IndexShard(t)

(***************************************************************************)
(* Specifications                                                          *)
(***************************************************************************)
\* one call of retry_with_mockable_time
SpecRetry == RetryInit /\ [][RetryNext]_vars

\* a ShardTable and the entries in it
SpecTable == TableInit /\ [][TableNext]_vars

\* ShardTableEntry::new applied to a shard list
SpecNew == NewInit /\ [][NewNext]_vars

\* one call of retry_with_mockable_time whose invocations and sleeps each
\* complete: the executor keeps polling the future, so a step that can be
\* taken is taken
SpecRetryFair == RetryInit /\ [][RetryNext]_vars /\ WF_vars(RetryNext)

\* an entry made by either constructor, then called by the threads, at most
\* MaxCalls calls in all
SpecEntry == EntryInit /\ [][EntryNext]_vars

\* an entry whose counter is near 0 or near its wrap-around, called by one
\* caller, at most MaxCalls calls in all
SpecWrap == WrapInit /\ [][WrapNext]_vars

\* an entry under sustained load: every thread keeps calling, and the
\* scheduler lets every thread that can take a step take it in the end
SpecSustained ==
  /\ SustainedInit
  /\ [][SustainedNext]_vars
  /\ \A t \in Threads : WF_vars(FetchAdd(t)) /\ WF_vars(IndexShard(t))

(***************************************************************************)
(* Properties of retry_with_mockable_time (SpecRetry)                      *)
(***************************************************************************)
\* the first n invocations of f all answered with a Transient error
AllTransient(n) ==
  /\ n <= calls
  /\ \A i \in 1..n : responses[i].retry = "Transient"

\* min(base_ms * 2^k, max_ms) over the integers, with no word width
ExactCeilingMs(base_ms, max_ms, k) ==
  IF base_ms = 0 THEN 0 ELSE ShlMin(base_ms, k, max_ms)

\* C1: with max_attempts = N >= 1, once the first N invocations have all
\* failed Transient, the call has returned the N-th invocation's error as it
\* was produced and f has been invoked exactly N times (never an N+1-th time).
C1_AttemptExhaustion ==
  LET N == retry_params.max_attempts
  IN  (N >= 1 /\ AllTransient(N)) =>
        /\ calls = N
        /\ pc = "returned"
        /\ result = responses[N]

\* 30 Transient failures against max_attempts = 30 (the default)
C1_Witness ==
  /\ retry_params.max_attempts = 30
  /\ AllTransient(30)
  /\ pc = "returned"
  /\ result = Transient(30)

\* C2: for 1 <= k <= max_attempts, when invocations 1..k-1 failed Transient and
\* invocation k failed Permanent, the call has returned that Permanent error
\* after exactly k invocations, with the k-1 sleeps of the earlier failures and
\* none after it.
C2_PermanentStops ==
  \A k \in 1..retry_params.max_attempts :
    (AllTransient(k - 1) /\ calls >= k /\ responses[k].retry = "Permanent") =>
      /\ calls = k
      /\ pc = "returned"
      /\ result = responses[k]
      /\ sleeps = k - 1

\* two Transient failures, then a Permanent one
C2_Witness ==
  /\ retry_params.max_attempts >= 3
  /\ calls = 3
  /\ AllTransient(2)
  /\ responses[3] = Permanent(3)
  /\ result = Permanent(3)
  /\ sleeps = 2

\* C3: with max_attempts = N >= 1 and 0 <= j <= N-1, when the first j
\* invocations failed Transient and invocation j+1 succeeded, the call has
\* returned that success after exactly j+1 invocations; and a Transient error
\* is the call's result only once N invocations were made, so the N-th
\* invocation is always given its chance.
C3_SuccessWithinBudget ==
  LET N == retry_params.max_attempts
  IN  /\ \A j \in 0..(N - 1) :
           (AllTransient(j) /\ calls > j /\ responses[j + 1].variant = "Ok") =>
             /\ calls = j + 1
             /\ pc = "returned"
             /\ result = responses[j + 1]
      /\ (pc = "returned" /\ result.retry = "Transient") => calls >= N

\* 29 Transient failures, then the 30th invocation succeeds
C3_Witness ==
  /\ retry_params.max_attempts = 30
  /\ calls = 30
  /\ AllTransient(29)
  /\ pc = "returned"
  /\ result = Ok(30)

\* C4: whatever the RetryParams, when the first invocation succeeds the call
\* has returned that success after exactly one invocation and no sleep.
C4_SuccessShortCircuits ==
  (calls >= 1 /\ responses[1].variant = "Ok") =>
    /\ calls = 1
    /\ pc = "returned"
    /\ result = responses[1]
    /\ sleeps = 0

\* a first invocation that succeeds, with max_attempts = 0 and zero delays
C4_Witness ==
  /\ retry_params = [base_delay |-> 0, max_delay |-> 0, max_attempts |-> 0]
  /\ responses = <<Ok(1)>>
  /\ pc = "returned"
  /\ result = Ok(1)

\* C9: whenever the executor retries after attempt k, no overflow happened,
\* the ceiling it computed is min(base_delay_ms * 2^k, max_delay_ms), and the
\* delay handed to the sleeper is a whole number of milliseconds d with
\* 0 <= d < that ceiling.
C9_JitterBound ==
  LET base_ms == as_millis(retry_params.base_delay)
      max_ms == as_millis(retry_params.max_delay)
      exact == ExactCeilingMs(base_ms, max_ms, attempt_count)
  IN  /\ pc = "sleep" =>
           \E d \in 0..(exact - 1) : delay = from_millis(d)
      /\ pc \in {"sleep", "panicked"} =>
           /\ panic # "attempt to multiply with overflow"
           /\ ceiling_ms = exact

\* C10: with max_attempts >= 1, the call ends only by returning a result the
\* operation produced; it never panics.
C10_NoNewErrorKind ==
  retry_params.max_attempts >= 1 =>
    /\ pc # "panicked"
    /\ pc = "returned" => \E i \in 1..calls : result = responses[i]

\* C15: within one call, invocations and sleeps alternate strictly: an
\* invocation starts only when every earlier invocation failed Transient and
\* was followed by one completed sleep; there is no sleep before the first
\* invocation and none after the last, so a call that made n invocations made
\* n - 1 sleeps; a sleep is in progress only after a Transient failure.
C15_StrictAlternation ==
  /\ \A i \in 1..(calls - 1) : responses[i].retry = "Transient"
  /\ pc = "invoke" => sleeps = calls
  /\ pc = "sleep" => (sleeps = calls /\ AllTransient(calls))
  /\ pc \in {"returned", "panicked"} => (calls >= 1 /\ sleeps = calls - 1)

\* the third invocation is about to start: two Transient failures, two
\* completed sleeps
C15_Witness ==
  /\ pc = "invoke"
  /\ calls = 2
  /\ sleeps = 2
  /\ AllTransient(2)

\* C20: every call of retry, whatever its RetryParams, in the end returns a
\* result, having invoked the operation at least once and at most
\* max(1, max_attempts) times.
C20_Terminates ==
  <>(/\ pc = "returned"
     /\ result # None
     /\ calls >= 1
     /\ calls <= (IF retry_params.max_attempts > 1
                  THEN retry_params.max_attempts ELSE 1))

(***************************************************************************)
(* Properties of ShardTableEntry and ShardTable (SpecNew, SpecTable)       *)
(***************************************************************************)
\* the shard_ids of a shard list, in order
IdsOf(shards) == [i \in 1..Len(shards) |-> shards[i].shard_id]

\* strictly ascending shard_ids
StrictlyAscending(shards) ==
  \A i \in 1..(Len(shards) - 1) : shards[i].shard_id < shards[i + 1].shard_id

\* the shard list is the open, sorted, deduplicated form of a list whose Open
\* shards have the ids `ids`
IsOpenSortedForm(shards, ids) ==
  /\ {shards[i].shard_id : i \in 1..Len(shards)} = ids
  /\ StrictlyAscending(shards)
  /\ \A i \in 1..Len(shards) : shards[i].shard_state = "Open"

\* C5: on an entry with M shards whose cursor started at 0, the i-th call of
\* next_shard_round_robin (i = 0, 1, 2, ...) answered the shard at position
\* i mod M of the ascending shard list: the first M calls each shard once in
\* ascending id order, call M+1 the first shard again.
C5_RoundRobinOrder ==
  \A key \in Keys :
    LET shards == table[key].shards
        M == Len(shards)
    IN  /\ StrictlyAscending(shards)
        /\ \A n \in 1..Len(served[key]) :
             served[key][n] = shards[((n - 1) % M) + 1]

\* an entry of two shards has answered three calls: 0, 1, 0 as in
\* test_shard_table
C5_Witness ==
  \E key \in Keys :
    /\ IdsOf(table[key].shards) = <<0, 1>>
    /\ IdsOf(served[key]) = <<0, 1, 0>>
    /\ last_op.op = "next_shard_round_robin"

\* C6: from a shard list with at least one Open shard, ShardTableEntry::new
\* answers an entry whose shard_ids are exactly the ids of the Open input
\* shards, each once, strictly ascending, with no Closed shard in it.
C6_EntryConstruction ==
  (new_entry # NoEntry /\ OpenIds(new_input) # {}) =>
    /\ ~new_entry.panicked
    /\ IsOpenSortedForm(new_entry.shards, OpenIds(new_input))

\* the list of test_shard_table: 0 (open), 1 (open), 0 (open), 2 (closed)
C6_Witness ==
  /\ new_input = << [shard_id |-> 0, shard_state |-> "Open"],
                    [shard_id |-> 1, shard_state |-> "Open"],
                    [shard_id |-> 0, shard_state |-> "Open"],
                    [shard_id |-> 2, shard_state |-> "Closed"] >>
  /\ IdsOf(new_entry.shards) = <<0, 1>>

\* C7 as stated: an insert_shards of a list with no Open shard hands its
\* caller an error value and does not abort (panic).
C7_ErrorValueNotAbort ==
  (last_op.op = "insert_shards" /\ last_op.open_ids = {}) => table_pc # "panicked"

\* C7 as amended: an insert_shards of a list that is empty or holds only
\* Closed shards fails by the panic of ShardTableEntry::new; no entry is made
\* of the list and the table is left as it was.
C7_EmptyRejectedByPanic ==
  [][(last_op'.op = "insert_shards" /\ last_op'.open_ids = {}) =>
       (table_pc' = "panicked" /\ table' = table)]_vars

\* an insert_shards with no Open shard has panicked, on a table holding an entry
C7_Witness ==
  /\ last_op.op = "insert_shards"
  /\ last_op.open_ids = {}
  /\ table_pc = "panicked"
  /\ \E key \in Keys : table[key] # NoEntry

\* C8: after a successful insert_shards for a key, whatever the calls the old
\* entry had served, the entry found for the key is the open, sorted,
\* deduplicated form of the new list with its cursor at 0, and the first
\* next_shard_round_robin call on it answers its lowest-id shard.
C8_ReplaceSemantics ==
  /\ (last_op.op = "insert_shards" /\ table_pc = "ready") =>
       /\ IsOpenSortedForm(table[last_op.key].shards, last_op.open_ids)
       /\ table[last_op.key].round_robin_idx = Zero
  /\ \A key \in Keys :
       Len(served[key]) >= 1 =>
         \A i \in 1..Len(table[key].shards) :
           served[key][1].shard_id <= table[key].shards[i].shard_id

\* an entry that had served two calls was replaced by one with other shards
C8_Witness ==
  /\ last_op.op = "insert_shards"
  /\ last_op.prior_calls = 2
  /\ table_pc = "ready"
  /\ IdsOf(table[last_op.key].shards) = <<1, 2>>
  /\ table[last_op.key].round_robin_idx = Zero

\* the keys that have an entry in the map
Present(map) == {key \in Keys : map[key] # NoEntry}

\* the value of a counter below 2^(2 * LimbBits)
LowValue(c) == c[1] + Pow2(LimbBits) * c[2]

\* C11: in every table state and for every key, contains_entry answers true
\* exactly when find_entry answers an entry, exactly when an insert_shards for
\* that very key succeeded earlier; a lookup of a key never inserted answers
\* "absent" and fails nothing.
C11_LookupConsistency ==
  /\ \A key \in Keys :
       /\ ContainsKey(table, key) <=> (Get(table, key) # NoEntry)
       /\ ContainsKey(table, key) <=> key \in inserted
  /\ last_op.op \in {"contains_entry", "find_entry"} =>
       /\ last_op.found <=> last_op.key \in inserted
       /\ table_pc = "ready"

\* find_entry of a key never inserted answered None while another key has an
\* entry
C11_Witness ==
  /\ last_op.op = "find_entry"
  /\ ~last_op.found
  /\ last_op.key \notin inserted
  /\ inserted # {}
  /\ table_pc = "ready"

\* C16: a successful insert_shards for key K changes K's entry only: every
\* other key keeps its presence, its shard list and its cursor, and the number
\* of entries grows by one when K was absent and stays the same otherwise.
C16_InsertFrame ==
  [][(last_op'.op = "insert_shards" /\ table_pc' = "ready") =>
       /\ \A key \in Keys \ {last_op'.key} : table'[key] = table[key]
       /\ Cardinality(Present(table')) =
            Cardinality(Present(table))
              + (IF last_op'.key \in Present(table) THEN 0 ELSE 1)]_vars

\* an insert_shards succeeded while another key's entry had served a call
C16_Witness ==
  /\ last_op.op = "insert_shards"
  /\ table_pc = "ready"
  /\ \E key \in Keys \ {last_op.key} :
       /\ table[key] # NoEntry
       /\ Len(served[key]) >= 1
       /\ table[key].round_robin_idx # Zero

\* C17: next_shard_round_robin changes nothing but the cursor of the entry it
\* is called on, which it moves forward by one; contains_entry and find_entry
\* change nothing; no read sets a cursor back.
C17_ReadFrame ==
  [][/\ last_op'.op \in {"contains_entry", "find_entry"} =>
          (table' = table /\ table_pc' = table_pc)
     /\ last_op'.op = "next_shard_round_robin" =>
          /\ \A key \in Keys \ {last_op'.key} : table'[key] = table[key]
          /\ table'[last_op'.key].shards = table[last_op'.key].shards
          /\ LowValue(table'[last_op'.key].round_robin_idx) =
               LowValue(table[last_op'.key].round_robin_idx) + 1
          /\ \A i \in 3..NumLimbs :
               table'[last_op'.key].round_robin_idx[i] =
                 table[last_op'.key].round_robin_idx[i]
          /\ table_pc' = table_pc]_vars

\* a second next_shard_round_robin call on one entry, another key's entry
\* having served a call too
C17_Witness ==
  /\ last_op.op = "next_shard_round_robin"
  /\ LowValue(table[last_op.key].round_robin_idx) = 2
  /\ \E key \in Keys \ {last_op.key} : Len(served[key]) >= 1

\* C19: when insert_shards is given a list with no Open shard and so fails,
\* the table is as it was: an entry stored for the key before is still
\* there with its shard list and its cursor, a key that was absent is still
\* absent, and the other keys are untouched.
C19_FailedInsertFrame ==
  [][(last_op'.op = "insert_shards" /\ last_op'.open_ids = {}) =>
       /\ \A key \in Keys :
            /\ table'[key].shards = table[key].shards
            /\ table'[key].round_robin_idx = table[key].round_robin_idx
            /\ served'[key] = served[key]
       /\ Present(table') = Present(table)
       /\ inserted' = inserted]_vars

\* an insert_shards with no Open shard failed on a key whose entry had served
\* a call, and that entry is still there with its cursor
C19_Witness ==
  /\ last_op.op = "insert_shards"
  /\ last_op.open_ids = {}
  /\ last_op.prior_calls >= 1
  /\ table[last_op.key] # NoEntry
  /\ table[last_op.key].round_robin_idx # Zero
  /\ Len(served[last_op.key]) = last_op.prior_calls

(***************************************************************************)
(* Properties of one entry called by threads (SpecEntry, SpecWrap,         *)
(* SpecSustained)                                                          *)
(***************************************************************************)
\* how many of n calls made one after the other on a fresh entry with these
\* shards return the shard with this id (call i returns position i mod M)
SequentialCount(shards, n, id) ==
  Cardinality({i \in 0..(n - 1) : shards[(i % Len(shards)) + 1].shard_id = id})

\* C12: however the threads' calls on one entry interleave, every call gets
\* its own value of the cursor from fetch_add, the cursor has advanced by one
\* per call, and once the calls are over the shards they returned are, with
\* multiplicity, those the same number of calls made one after the other
\* return.
C12_NoLostUpdate ==
  (new_by = "new" /\ EntryExists) =>
    /\ \A i, j \in 1..Len(fetch_log) : i # j => fetch_log[i] # fetch_log[j]
    /\ LowValue(new_entry.round_robin_idx) = Len(fetch_log)
    /\ \A i \in 3..NumLimbs : new_entry.round_robin_idx[i] = 0
    /\ (\A t \in Threads : thr_pc[t] = "idle") =>
         \A id \in ShardIds :
           ret_count[id] = SequentialCount(new_entry.shards, Len(fetch_log), id)

\* after one call was completed, two threads are between their fetch_add and
\* their indexing at the same time, on an entry of two shards
C12_Witness ==
  /\ new_by = "new"
  /\ Len(new_entry.shards) = 2
  /\ Len(fetch_log) = 3
  /\ thr_pc[1] = "fetched"
  /\ thr_pc[2] = "fetched"
  /\ thr_idx[1] # thr_idx[2]

\* C13: for an entry of M shards and any value of the cursor, values next to
\* its wrap-around included, the M calls made one after the other from that
\* value return each of the M shards exactly once.
C13_FullCycleFromAnyCursor ==
  (thr_pc[1] = "idle" /\ Len(fetch_log) = Len(new_entry.shards)) =>
    \A i \in 1..Len(new_entry.shards) :
      ret_count[new_entry.shards[i].shard_id] = 1

\* C14: on an entry under sustained load from any number of threads, fairly
\* scheduled, every shard of the entry is returned again and again for ever.
C14_EventualCoverage ==
  \A i \in 1..Cardinality(ShardIds) :
    []<><<\/ i > Len(new_entry.shards)
          \/ \E t \in Threads :
               IndexShard(t) /\ last_ret' = new_entry.shards[i]>>_vars

\* under sustained load on a three-shard entry, calls having returned
\* already, one thread holds the largest value of the counter and another
\* holds the 0 the counter wrapped around to
C14_Witness ==
  /\ sustained
  /\ Len(new_entry.shards) = Cardinality(ShardIds)
  /\ last_ret = new_entry.shards[Cardinality(ShardIds)]
  /\ thr_pc[2] = "fetched"
  /\ thr_idx[2] = [i \in 1..Len(SmallZero) |-> LimbMax]
  /\ thr_pc[1] = "fetched"
  /\ thr_idx[1] = SmallZero

\* C18: every ShardTableEntry, whichever constructor made it, holds at least
\* one shard, so no call of next_shard_round_robin fails on an empty list.
C18_NonEmptyEntry ==
  /\ EntryExists => Len(new_entry.shards) >= 1
  /\ \A t \in Threads : thr_pc[t] # "panicked"

====
